---- MODULE Spec2Model ----
(***************************************************************************)
(* Model of cmd/chihuahuad/prune.go: the "prune start" command, which      *)
(* prunes and compacts blockstore.db and state.db of a stopped node.       *)
(*                                                                         *)
(* The command is sequential.  Every call into a store (open, Base,        *)
(* Height, PruneBlocks, Write, CompactRange, Close) is one step of the     *)
(* model; whether such a call returns an error is chosen by the            *)
(* environment, at most MaxFaults times in a behaviour.                    *)
(***************************************************************************)
EXTENDS Integers, Sequences, FiniteSets, TLC

(***************************************************************************)
(* Program constants (prune.go:24-33).                                     *)
(***************************************************************************)
batchMaxSize == 1000
kValidators == "validatorsKey:"
kConsensusParams == "consensusParamsKey:"
kABCIResponses == "abciResponsesKey:"
stateDBKeys == <<kValidators, kConsensusParams, kABCIResponses>>

(***************************************************************************)
(* Bounds of the model.                                                    *)
(***************************************************************************)
MaxRuns == 2       \* invocations of the command on the same data directory
MaxFaults == 1     \* store calls that return an I/O error in a behaviour
TopHeight == 1003  \* height of the tall block store
LowHeight == 6     \* height of the short block store
Margin == 4        \* heights kept in the initial state store around an edge

(***************************************************************************)
(* strconv.FormatInt(c, 10): decimal text of an integer.                   *)
(***************************************************************************)
Digit(d) ==
    CASE d = 0 -> "0" [] d = 1 -> "1" [] d = 2 -> "2" [] d = 3 -> "3"
      [] d = 4 -> "4" [] d = 5 -> "5" [] d = 6 -> "6" [] d = 7 -> "7"
      [] d = 8 -> "8" [] d = 9 -> "9"

RECURSIVE FormatUint(_)
FormatUint(n) ==
    IF n < 10 THEN Digit(n) ELSE FormatUint(n \div 10) \o Digit(n % 10)

FormatInt(n) == IF n < 0 THEN "-" \o FormatUint(0 - n) ELSE FormatUint(n)

\* []byte(s + strconv.FormatInt(c, 10)), prune.go:211
Key(s, h) == s \o FormatInt(h)

(***************************************************************************)
(* strconv.ParseInt(flag, 10, 64).  A flag is a sequence of one-character  *)
(* strings.  The result is [ok, val]: ok is FALSE for a syntax or a range  *)
(* error.  The range test is done on the digits, against 2^63 - 1 (or 2^63 *)
(* for a negative number).                                                 *)
(***************************************************************************)
DigitChars == {"0", "1", "2", "3", "4", "5", "6", "7", "8", "9"}

DigitVal(ch) ==
    CASE ch = "0" -> 0 [] ch = "1" -> 1 [] ch = "2" -> 2 [] ch = "3" -> 3
      [] ch = "4" -> 4 [] ch = "5" -> 5 [] ch = "6" -> 6 [] ch = "7" -> 7
      [] ch = "8" -> 8 [] ch = "9" -> 9

MaxInt64Digits ==
    <<9, 2, 2, 3, 3, 7, 2, 0, 3, 6, 8, 5, 4, 7, 7, 5, 8, 0, 7>>

RECURSIVE StripZeros(_)
StripZeros(ds) ==
    IF Len(ds) > 1 /\ ds[1] = "0" THEN StripZeros(Tail(ds)) ELSE ds

RECURSIVE DigitsValue(_)
DigitsValue(ds) ==
    IF ds = <<>> THEN 0
    ELSE 10 * DigitsValue(SubSeq(ds, 1, Len(ds) - 1)) + DigitVal(ds[Len(ds)])

\* ds (19 digits) exceeds lim (19 digits), compared from the left
RECURSIVE DigitsGreater(_, _)
DigitsGreater(ds, lim) ==
    IF ds = <<>> THEN FALSE
    ELSE IF DigitVal(ds[1]) # lim[1] THEN DigitVal(ds[1]) > lim[1]
    ELSE DigitsGreater(Tail(ds), Tail(lim))

OutOfRange(ds, neg) ==
    LET sig == StripZeros(ds)
        lim == IF neg THEN [MaxInt64Digits EXCEPT ![19] = 8]
               ELSE MaxInt64Digits
    IN  \/ Len(sig) > 19
        \/ Len(sig) = 19 /\ DigitsGreater(sig, lim)

ParseInt(s) ==
    IF s = <<>> THEN [ok |-> FALSE, val |-> 0]
    ELSE LET neg == s[1] = "-"
             ds == IF s[1] \in {"+", "-"} THEN Tail(s) ELSE s
         IN  IF ds = <<>> \/ \E k \in 1..Len(ds) : ds[k] \notin DigitChars
             THEN [ok |-> FALSE, val |-> 0]
             ELSE IF OutOfRange(ds, neg) THEN [ok |-> FALSE, val |-> 0]
             ELSE [ok |-> TRUE,
                   val |-> IF neg THEN 0 - DigitsValue(StripZeros(ds))
                           ELSE DigitsValue(StripZeros(ds))]

(***************************************************************************)
(* State.                                                                  *)
(***************************************************************************)
VARIABLES
    run,            \* number of the current invocation of the command
    faults,         \* store calls that returned an I/O error so far
    pc,             \* position of the command in its code
    err,            \* the err variable of the function being executed
    fullHeightFlag, \* value of flag full_height, as text
    minHeightFlag,  \* value of flag min_height, as text
    fullHeight,     \* parsed flags
    minHeight,
    bsBase,         \* block store on disk: Base() and Height()
    bsHeight,
    stateKeys,      \* state store on disk: the set of keys present
    startHeight,    \* results of pruneBlockStoreAndGetHeights
    currentHeight,
    db_bs,          \* handles: "nil" (never opened), "open", "closed"
    db_cb,
    db_st,
    i,              \* pruneStateStore: index into stateDBKeys
    retain_height,
    batch,          \* pending delete operations, a sequence of keys
    curBatchSize,
    c,
    oplog,          \* store calls issued in this run, in order
    stages,         \* stages of this run that have succeeded, in order
    added,          \* per namespace: delete operations added to a batch
    mid,            \* per namespace: successful commits inside the loop
    fin,            \* per namespace: successful flushes after the loop
    failed,         \* store calls that returned an error in this run
    probe,          \* result of the liveness probe of this run
    keys0,          \* state store at the start of this run
    base0,          \* base of the block store at the start of this run
    prev            \* outcome and stores left by the previous run

flagVars == <<fullHeightFlag, minHeightFlag>>
parsedVars == <<fullHeight, minHeight>>
blockStoreVars == <<bsBase, bsHeight>>
heightVars == <<startHeight, currentHeight>>
handleVars == <<db_bs, db_cb, db_st>>
loopVars == <<i, retain_height, batch, curBatchSize, c>>
countVars == <<added, mid, fin>>
histVars == <<run, keys0, base0, prev>>

vars == <<faults, pc, err, flagVars, parsedVars, blockStoreVars, stateKeys,
          heightVars, handleVars, loopVars, oplog, stages, countVars,
          failed, probe, histVars>>

Namespaces == 1..Len(stateDBKeys)

(***************************************************************************)
(* Inputs.  Flags are the texts given on the command line; the block store *)
(* is contiguous from its base to its height; the state store holds the    *)
(* three kinds of keys for heights around the base and the height of the   *)
(* block store, and a few keys that are none of these.                     *)
(***************************************************************************)
FlagValues ==
    { <<"2">>, <<"5">>, <<"1", "0", "0", "2">>,
      <<"x">>, <<>>, <<"1", "_", "0">>,
      <<"9", "2", "2", "3", "3", "7", "2", "0", "3", "6", "8", "5", "4",
        "7", "7", "5", "8", "0", "8">> }

BlockStores ==
    { [base |-> 1, height |-> LowHeight],
      [base |-> 2, height |-> LowHeight],
      [base |-> 1, height |-> TopHeight] }

OtherKeys ==
    { "stateKey", "genesisDoc", "validatorsKey:", "validatorsKey:01",
      "abciResponsesKey:-1", "consensusParamsKey:1x" }

\* heights within Margin of one of the edges
SampleHeights(edges, top) ==
    { h \in UNION { (e - Margin)..(e + Margin) : e \in edges } :
        h >= 0 /\ h <= top + Margin }

FlagEdges(height) ==
    { height - ParseInt(f).val : f \in { g \in FlagValues : ParseInt(g).ok } }

StateStoreAt(edges, top) ==
    { Key(stateDBKeys[n], h) :
        n \in Namespaces, h \in SampleHeights(edges, top) }
    \cup OtherKeys

(***************************************************************************)
(* A store call may return an I/O error while the fault budget lasts.      *)
(***************************************************************************)
FaultChoices == IF faults < MaxFaults THEN {FALSE, TRUE} ELSE {FALSE}

Charge(op, fail) ==
    /\ faults' = IF fail THEN faults + 1 ELSE faults
    /\ failed' = IF fail THEN failed \cup {op} ELSE failed

Zero3 == <<0, 0, 0>>

Init ==
    /\ run = 1
    /\ faults = 0
    /\ pc = "CheckLiveness"
    /\ err = "nil"
    /\ fullHeightFlag \in FlagValues
    /\ minHeightFlag \in FlagValues
    /\ fullHeight = 0
    /\ minHeight = 0
    /\ \E bs \in BlockStores :
         /\ bsBase = bs.base
         /\ bsHeight = bs.height
         /\ stateKeys = StateStoreAt({bs.base, bs.height}
                                        \cup FlagEdges(bs.height), bs.height)
         /\ keys0 = stateKeys
         /\ base0 = bs.base
    /\ probe = "none"
    /\ startHeight = 0
    /\ currentHeight = 0
    /\ db_bs = "nil"
    /\ db_cb = "nil"
    /\ db_st = "nil"
    /\ i = 1
    /\ retain_height = 0
    /\ batch = <<>>
    /\ curBatchSize = 0
    /\ c = 0
    /\ oplog = <<>>
    /\ stages = <<>>
    /\ added = Zero3
    /\ mid = Zero3
    /\ fin = Zero3
    /\ failed = {}
    /\ prev = [outcome |-> "none", stateKeys |-> {}, bsBase |-> 0,
               bsHeight |-> 0, faults |-> 0, base0 |-> 0,
               stages |-> <<>>]

(***************************************************************************)
(* runStartPruneCmd, prune.go:70-120.                                      *)
(***************************************************************************)
\* outcomes of exec.Command("chihuahuad", "status").Run()
ProbeResults == {"running", "notRunning", "cannotExecute"}

ProbeErr(p) == IF p = "running" THEN "nil" ELSE "ErrProbe"


\* CheckLiveness with the test of line 88 inverted
CheckLivenessInverted ==
    /\ pc = "CheckLiveness"
    /\ \E p \in ProbeResults :
         /\ probe' = p
         /\ IF ProbeErr(p) # "nil"
            THEN /\ pc' = "NoOp"
                 /\ err' = "nil"
            ELSE /\ pc' = "ParseFlags"
                 /\ err' = ProbeErr(p)
    /\ UNCHANGED <<faults, flagVars, parsedVars, blockStoreVars, stateKeys,
                   heightVars, handleVars, loopVars, oplog, stages,
                   countVars, failed, histVars>>


\* CheckLiveness that returns the error of a probe that could not be run
CheckLivenessStrict ==
    /\ pc = "CheckLiveness"
    /\ \E p \in ProbeResults :
         /\ probe' = p
         /\ IF ProbeErr(p) = "nil"
            THEN /\ pc' = "NoOp"
                 /\ err' = "nil"
            ELSE IF p = "cannotExecute"
            THEN /\ pc' = "Failed"
                 /\ err' = ProbeErr(p)
            ELSE /\ pc' = "ParseFlags"
                 /\ err' = ProbeErr(p)
    /\ UNCHANGED <<faults, flagVars, parsedVars, blockStoreVars, stateKeys,
                   heightVars, handleVars, loopVars, oplog, stages,
                   countVars, failed, histVars>>

\* prune.go:85-91
CheckLiveness ==
    /\ pc = "CheckLiveness"
    /\ \E p \in ProbeResults :
         /\ probe' = p
         /\ IF ProbeErr(p) = "nil"
            THEN /\ pc' = "NoOp"
                 /\ err' = "nil"
            ELSE /\ pc' = "ParseFlags"
                 /\ err' = ProbeErr(p)
    /\ UNCHANGED <<faults, flagVars, parsedVars, blockStoreVars, stateKeys,
                   heightVars, handleVars, loopVars, oplog, stages,
                   countVars, failed, histVars>>


\* ParseFlags with the error of line 98 dropped
ParseFlagsIgnoresMin ==
    /\ pc = "ParseFlags"
    /\ LET f == ParseInt(fullHeightFlag)
           m == ParseInt(minHeightFlag)
       IN  IF ~f.ok
           THEN /\ pc' = "Failed"
                /\ err' = "ErrParseFullHeight"
                /\ UNCHANGED parsedVars
           ELSE /\ pc' = "OpenBlockStore"
                /\ err' = "nil"
                /\ fullHeight' = f.val
                /\ minHeight' = m.val
    /\ UNCHANGED <<faults, flagVars, blockStoreVars, stateKeys, heightVars,
                   handleVars, loopVars, oplog, stages, countVars,
                   failed, probe, histVars>>

\* prune.go:93-101
ParseFlags ==
    /\ pc = "ParseFlags"
    /\ LET f == ParseInt(fullHeightFlag)
           m == ParseInt(minHeightFlag)
       IN  IF ~f.ok
           THEN /\ pc' = "Failed"
                /\ err' = "ErrParseFullHeight"
                /\ UNCHANGED parsedVars
           ELSE IF ~m.ok
           THEN /\ pc' = "Failed"
                /\ err' = "ErrParseMinHeight"
                /\ fullHeight' = f.val
                /\ UNCHANGED minHeight
           ELSE /\ pc' = "OpenBlockStore"
                /\ err' = "nil"
                /\ fullHeight' = f.val
                /\ minHeight' = m.val
    /\ UNCHANGED <<faults, flagVars, blockStoreVars, stateKeys, heightVars,
                   handleVars, loopVars, oplog, stages, countVars,
                   failed, probe, histVars>>

(***************************************************************************)
(* pruneBlockStoreAndGetHeights, prune.go:123-158.                         *)
(***************************************************************************)
\* prune.go:130-136 (and the caller's return, 104-106)
OpenBlockStore ==
    /\ pc = "OpenBlockStore"
    /\ \E fail \in FaultChoices :
         /\ Charge("open_bs", fail)
         /\ IF fail
            THEN /\ pc' = "Failed"
                 /\ err' = "ErrOpenBlockStore"
                 /\ UNCHANGED db_bs
            ELSE /\ pc' = "ResolveHeights"
                 /\ err' = "nil"
                 /\ db_bs' = "open"
    /\ oplog' = Append(oplog, "open_bs")
    /\ UNCHANGED <<flagVars, parsedVars, blockStoreVars, stateKeys,
                   heightVars, db_cb, db_st, loopVars, stages, countVars,
                   probe, histVars>>

\* prune.go:138-140
ResolveHeights ==
    /\ pc = "ResolveHeights"
    /\ startHeight' = bsBase
    /\ currentHeight' = bsHeight
    /\ pc' = "PruneBlocks"
    /\ oplog' = oplog \o <<"base_bs", "height_bs">>
    /\ stages' = Append(stages, "ResolveHeights")
    /\ UNCHANGED <<faults, err, flagVars, parsedVars, blockStoreVars,
                   stateKeys, handleVars, loopVars, countVars, failed,
                   probe, histVars>>

\* tmstore.BlockStore.PruneBlocks as called at prune.go:143: the routine
\* rejects a height that is not positive, above the store's height or below
\* its base; otherwise it removes the blocks below height and makes height
\* the base.
PruneRejects(height) ==
    height <= 0 \/ height > bsHeight \/ height < bsBase


\* PruneBlocks that reads bs.Base() again after the pruning
PruneBlocksRereadsBase ==
    /\ pc = "PruneBlocks"
    /\ LET height == currentHeight - fullHeight
       IN  \E fail \in FaultChoices :
             /\ faults' = IF fail THEN faults + 1 ELSE faults
             /\ failed' = IF PruneRejects(height) \/ fail
                          THEN failed \cup {"prune_bs"} ELSE failed
             /\ IF PruneRejects(height) \/ fail
                THEN /\ pc' = "Failed"
                     /\ err' = IF PruneRejects(height) THEN "ErrPruneHeight"
                               ELSE "ErrPruneBlocks"
                     /\ db_bs' = "closed"
                     /\ oplog' = oplog \o <<"prune_bs", "close_bs">>
                     /\ UNCHANGED <<blockStoreVars, heightVars>>
                ELSE /\ pc' = "CloseBlockStore"
                     /\ err' = "nil"
                     /\ bsBase' = height
                     /\ startHeight' = height
                     /\ oplog' = Append(oplog, "prune_bs")
                     /\ UNCHANGED <<bsHeight, db_bs, currentHeight>>
    /\ UNCHANGED <<flagVars, parsedVars, stateKeys, db_cb, db_st,
                   loopVars, stages, countVars, probe, histVars>>


\* PruneBlocks without the deferred Close of line 136
PruneBlocksNoDefer ==
    /\ pc = "PruneBlocks"
    /\ LET height == currentHeight - fullHeight
       IN  \E fail \in FaultChoices :
             /\ faults' = IF fail THEN faults + 1 ELSE faults
             /\ failed' = IF PruneRejects(height) \/ fail
                          THEN failed \cup {"prune_bs"} ELSE failed
             /\ IF PruneRejects(height) \/ fail
                THEN /\ pc' = "Failed"
                     /\ err' = IF PruneRejects(height) THEN "ErrPruneHeight"
                               ELSE "ErrPruneBlocks"
                     /\ oplog' = Append(oplog, "prune_bs")
                     /\ UNCHANGED <<blockStoreVars, db_bs>>
                ELSE /\ pc' = "CloseBlockStore"
                     /\ err' = "nil"
                     /\ bsBase' = height
                     /\ oplog' = Append(oplog, "prune_bs")
                     /\ UNCHANGED <<bsHeight, db_bs>>
    /\ UNCHANGED <<flagVars, parsedVars, stateKeys, heightVars, db_cb, db_st,
                   loopVars, stages, countVars, probe, histVars>>

\* prune.go:143-147; on error the deferred Close of line 136 runs
PruneBlocks ==
    /\ pc = "PruneBlocks"
    /\ LET height == currentHeight - fullHeight
       IN  \E fail \in FaultChoices :
             /\ faults' = IF fail THEN faults + 1 ELSE faults
             /\ failed' = IF PruneRejects(height) \/ fail
                          THEN failed \cup {"prune_bs"} ELSE failed
             /\ IF PruneRejects(height) \/ fail
                THEN /\ pc' = "Failed"
                     /\ err' = IF PruneRejects(height) THEN "ErrPruneHeight"
                               ELSE "ErrPruneBlocks"
                     /\ db_bs' = "closed"
                     /\ oplog' = oplog \o <<"prune_bs", "close_bs">>
                     /\ UNCHANGED blockStoreVars
                ELSE /\ pc' = "CloseBlockStore"
                     /\ err' = "nil"
                     /\ bsBase' = height
                     /\ oplog' = Append(oplog, "prune_bs")
                     /\ UNCHANGED <<bsHeight, db_bs>>
    /\ UNCHANGED <<flagVars, parsedVars, stateKeys, heightVars, db_cb, db_st,
                   loopVars, stages, countVars, probe, histVars>>


\* the return of line 157 with no Close of db_bs at all
CloseBlockStoreLeaksHandle ==
    /\ pc = "CloseBlockStore"
    /\ pc' = "OpenCompact"
    /\ err' = "nil"
    /\ stages' = Append(stages, "PruneBlocks")
    /\ UNCHANGED <<faults, failed, oplog, flagVars, parsedVars,
                   blockStoreVars, stateKeys, heightVars, handleVars,
                   loopVars, countVars, probe, histVars>>

\* prune.go:153-157 followed by the deferred Close of line 136, whose
\* result is dropped (and the caller's return, 104-106)
CloseBlockStore ==
    /\ pc = "CloseBlockStore"
    /\ \E fail \in FaultChoices :
         /\ Charge("close_bs", fail)
         /\ IF fail
            THEN /\ pc' = "Failed"
                 /\ err' = "ErrCloseBlockStore"
                 /\ UNCHANGED stages
            ELSE /\ pc' = "OpenCompact"
                 /\ err' = "nil"
                 /\ stages' = Append(stages, "PruneBlocks")
    /\ db_bs' = "closed"
    /\ oplog' = oplog \o <<"close_bs", "close_bs">>
    /\ UNCHANGED <<flagVars, parsedVars, blockStoreVars, stateKeys,
                   heightVars, db_cb, db_st, loopVars, countVars,
                   probe, histVars>>

(***************************************************************************)
(* compactBlockStore, prune.go:161-179.  err is the named result: the      *)
(* deferred function of lines 169-171 assigns it the result of db.Close()  *)
(* after the return statement has set it.                                  *)
(***************************************************************************)
\* prune.go:168-174; when OpenFile fails db is nil and the deferred
\* db.Close() dereferences it: the process panics
OpenCompact ==
    /\ pc = "OpenCompact"
    /\ \E fail \in FaultChoices :
         /\ Charge("open_cb", fail)
         /\ IF fail
            THEN /\ pc' = "Crashed"
                 /\ err' = "panic"
                 /\ UNCHANGED db_cb
            ELSE /\ pc' = "CompactBlocks"
                 /\ err' = "nil"
                 /\ db_cb' = "open"
    /\ oplog' = Append(oplog, "open_cb")
    /\ UNCHANGED <<flagVars, parsedVars, blockStoreVars, stateKeys,
                   heightVars, db_bs, db_st, loopVars, stages, countVars,
                   probe, histVars>>

\* prune.go:175-178: the return statement sets err
CompactBlocks ==
    /\ pc = "CompactBlocks"
    /\ \E fail \in FaultChoices :
         /\ Charge("compact_cb", fail)
         /\ err' = IF fail THEN "ErrCompactBlocks" ELSE "nil"
    /\ pc' = "CloseCompact"
    /\ oplog' = Append(oplog, "compact_cb")
    /\ UNCHANGED <<flagVars, parsedVars, blockStoreVars, stateKeys,
                   heightVars, handleVars, loopVars, stages, countVars,
                   probe, histVars>>

\* prune.go:169-171, then the caller's test of lines 108-111
CloseCompact ==
    /\ pc = "CloseCompact"
    /\ \E fail \in FaultChoices :
         /\ Charge("close_cb", fail)
         /\ err' = IF fail THEN "ErrCloseCompact" ELSE "nil"
         /\ pc' = IF fail THEN "Failed" ELSE "OpenStateStore"
         /\ stages' = IF ~fail /\ err = "nil"
                      THEN Append(stages, "CompactBlocks") ELSE stages
    /\ db_cb' = "closed"
    /\ oplog' = Append(oplog, "close_cb")
    /\ UNCHANGED <<flagVars, parsedVars, blockStoreVars, stateKeys,
                   heightVars, db_bs, db_st, loopVars, countVars,
                   probe, histVars>>

(***************************************************************************)
(* pruneStateStore, prune.go:182-236.                                      *)
(***************************************************************************)
\* prune.go:187-191
OpenStateStore ==
    /\ pc = "OpenStateStore"
    /\ \E fail \in FaultChoices :
         /\ Charge("open_st", fail)
         /\ IF fail
            THEN /\ pc' = "ReturnPruneState"
                 /\ err' = "ErrOpenStateStore"
                 /\ UNCHANGED db_st
            ELSE /\ pc' = "NsBegin"
                 /\ err' = "nil"
                 /\ db_st' = "open"
    /\ i' = 1
    /\ oplog' = Append(oplog, "open_st")
    /\ UNCHANGED <<flagVars, parsedVars, blockStoreVars, stateKeys,
                   heightVars, db_bs, db_cb, retain_height, batch,
                   curBatchSize, c, stages, countVars, probe, histVars>>


\* RetainHeight with the ABCI retention counted up from startHeight
RetainHeightFromStart(s) ==
    IF s = kABCIResponses THEN startHeight + minHeight
    ELSE currentHeight - fullHeight


\* RetainHeight with the two flags of lines 198-203 exchanged
RetainHeightSwapped(s) ==
    IF s = kABCIResponses THEN currentHeight - fullHeight
    ELSE currentHeight - minHeight

\* prune.go:198-203
RetainHeight(s) ==
    IF s = kABCIResponses THEN currentHeight - minHeight
    ELSE currentHeight - fullHeight


\* NsBegin with the loop of line 210 started at height 0
NsBeginFromZero ==
    /\ pc = "NsBegin"
    /\ retain_height' = RetainHeight(stateDBKeys[i])
    /\ batch' = <<>>
    /\ curBatchSize' = 0
    /\ c' = 0
    /\ pc' = "Loop"
    /\ UNCHANGED <<faults, err, flagVars, parsedVars, blockStoreVars,
                   stateKeys, heightVars, handleVars, i, oplog, stages,
                   countVars, failed, probe, histVars>>

\* prune.go:195-210: head of the loop over stateDBKeys
NsBegin ==
    /\ pc = "NsBegin"
    /\ retain_height' = RetainHeight(stateDBKeys[i])
    /\ batch' = <<>>
    /\ curBatchSize' = 0
    /\ c' = startHeight
    /\ pc' = "Loop"
    /\ UNCHANGED <<faults, err, flagVars, parsedVars, blockStoreVars,
                   stateKeys, heightVars, handleVars, i, oplog, stages,
                   countVars, failed, probe, histVars>>


\* LoopStep with the loop test of line 210 written c <= retain_height
LoopStepInclusive ==
    /\ pc = "Loop"
    /\ IF c <= retain_height
       THEN /\ batch' = Append(batch, Key(stateDBKeys[i], c))
            /\ curBatchSize' = curBatchSize + 1
            /\ added' = [added EXCEPT ![i] = @ + 1]
            /\ IF curBatchSize' % batchMaxSize = 0 /\ curBatchSize' > 0
               THEN /\ pc' = "MidCommit"
                    /\ UNCHANGED c
               ELSE /\ pc' = "Loop"
                    /\ c' = c + 1
       ELSE /\ pc' = "FinalFlush"
            /\ UNCHANGED <<batch, curBatchSize, added, c>>
    /\ UNCHANGED <<faults, err, flagVars, parsedVars, blockStoreVars,
                   stateKeys, heightVars, handleVars, i, retain_height,
                   oplog, stages, mid, fin, failed, probe, histVars>>

\* LoopStep with the test of line 214 written curBatchSize >= batchMaxSize
LoopStepAtLeast ==
    /\ pc = "Loop"
    /\ IF c < retain_height
       THEN /\ batch' = Append(batch, Key(stateDBKeys[i], c))
            /\ curBatchSize' = curBatchSize + 1
            /\ added' = [added EXCEPT ![i] = @ + 1]
            /\ IF curBatchSize' >= batchMaxSize
               THEN /\ pc' = "MidCommit"
                    /\ UNCHANGED c
               ELSE /\ pc' = "Loop"
                    /\ c' = c + 1
       ELSE /\ pc' = "FinalFlush"
            /\ UNCHANGED <<batch, curBatchSize, added, c>>
    /\ UNCHANGED <<faults, err, flagVars, parsedVars, blockStoreVars,
                   stateKeys, heightVars, handleVars, i, retain_height,
                   oplog, stages, mid, fin, failed, probe, histVars>>

\* prune.go:210-214: the loop test, one Delete added to the batch, and the
\* test for a full batch
LoopStep ==
    /\ pc = "Loop"
    /\ IF c < retain_height
       THEN /\ batch' = Append(batch, Key(stateDBKeys[i], c))
            /\ curBatchSize' = curBatchSize + 1
            /\ added' = [added EXCEPT ![i] = @ + 1]
            /\ IF curBatchSize' % batchMaxSize = 0 /\ curBatchSize' > 0
               THEN /\ pc' = "MidCommit"
                    /\ UNCHANGED c
               ELSE /\ pc' = "Loop"
                    /\ c' = c + 1
       ELSE /\ pc' = "FinalFlush"
            /\ UNCHANGED <<batch, curBatchSize, added, c>>
    /\ UNCHANGED <<faults, err, flagVars, parsedVars, blockStoreVars,
                   stateKeys, heightVars, handleVars, i, retain_height,
                   oplog, stages, mid, fin, failed, probe, histVars>>

\* the keys of a batch
BatchKeys(b) == { b[k] : k \in 1..Len(b) }

\* db.Write(batch, nil) that returns nil: every Delete of the batch applied
WriteBatch(keys, b) == keys \ BatchKeys(b)


\* MidCommit with the error of line 215 dropped: the loop goes on
MidCommitIgnoresError ==
    /\ pc = "MidCommit"
    /\ \E fail \in FaultChoices :
         /\ Charge("write_st", fail)
         /\ pc' = "Loop"
         /\ err' = "nil"
         /\ stateKeys' = IF fail THEN stateKeys
                         ELSE WriteBatch(stateKeys, batch)
         /\ batch' = <<>>
         /\ c' = c + 1
         /\ mid' = IF fail THEN mid ELSE [mid EXCEPT ![i] = @ + 1]
    /\ oplog' = Append(oplog, "write_st")
    /\ UNCHANGED <<flagVars, parsedVars, blockStoreVars, heightVars,
                   handleVars, i, retain_height, curBatchSize, stages,
                   added, fin, probe, histVars>>


\* MidCommit without the new batch of lines 219-220
MidCommitKeepsBatch ==
    /\ pc = "MidCommit"
    /\ \E fail \in FaultChoices :
         /\ Charge("write_st", fail)
         /\ IF fail
            THEN /\ pc' = "CloseStateStore"
                 /\ err' = "ErrWrite"
                 /\ UNCHANGED <<stateKeys, batch, c, mid>>
            ELSE /\ pc' = "Loop"
                 /\ err' = "nil"
                 /\ stateKeys' = WriteBatch(stateKeys, batch)
                 /\ batch' = batch
                 /\ c' = c + 1
                 /\ mid' = [mid EXCEPT ![i] = @ + 1]
    /\ oplog' = Append(oplog, "write_st")
    /\ UNCHANGED <<flagVars, parsedVars, blockStoreVars, heightVars,
                   handleVars, i, retain_height, curBatchSize, stages,
                   added, fin, probe, histVars>>

\* prune.go:215-221 and the c++ of line 210
MidCommit ==
    /\ pc = "MidCommit"
    /\ \E fail \in FaultChoices :
         /\ Charge("write_st", fail)
         /\ IF fail
            THEN /\ pc' = "CloseStateStore"
                 /\ err' = "ErrWrite"
                 /\ UNCHANGED <<stateKeys, batch, c, mid>>
            ELSE /\ pc' = "Loop"
                 /\ err' = "nil"
                 /\ stateKeys' = WriteBatch(stateKeys, batch)
                 /\ batch' = <<>>
                 /\ c' = c + 1
                 /\ mid' = [mid EXCEPT ![i] = @ + 1]
    /\ oplog' = Append(oplog, "write_st")
    /\ UNCHANGED <<flagVars, parsedVars, blockStoreVars, heightVars,
                   handleVars, i, retain_height, curBatchSize, stages,
                   added, fin, probe, histVars>>

\* prune.go:224-229, then the next namespace or line 231
FinalFlush ==
    /\ pc = "FinalFlush"
    /\ \E fail \in FaultChoices :
         /\ Charge("write_st", fail)
         /\ IF fail
            THEN /\ pc' = "CloseStateStore"
                 /\ err' = "ErrWrite"
                 /\ UNCHANGED <<stateKeys, batch, i, fin, stages>>
            ELSE /\ err' = "nil"
                 /\ stateKeys' = WriteBatch(stateKeys, batch)
                 /\ batch' = <<>>
                 /\ fin' = [fin EXCEPT ![i] = @ + 1]
                 /\ IF i < Len(stateDBKeys)
                    THEN /\ i' = i + 1
                         /\ pc' = "NsBegin"
                         /\ UNCHANGED stages
                    ELSE /\ pc' = "CompactState"
                         /\ stages' = Append(stages, "PruneState")
                         /\ UNCHANGED i
    /\ oplog' = Append(oplog, "write_st")
    /\ UNCHANGED <<flagVars, parsedVars, blockStoreVars, heightVars,
                   handleVars, retain_height, curBatchSize, c, added, mid,
                   probe, histVars>>

\* prune.go:231-235
CompactState ==
    /\ pc = "CompactState"
    /\ \E fail \in FaultChoices :
         /\ Charge("compact_st", fail)
         /\ err' = IF fail THEN "ErrCompactState" ELSE "nil"
    /\ pc' = "CloseStateStore"
    /\ oplog' = Append(oplog, "compact_st")
    /\ UNCHANGED <<flagVars, parsedVars, blockStoreVars, stateKeys,
                   heightVars, handleVars, loopVars, stages, countVars,
                   probe, histVars>>

\* prune.go:191: the deferred db.Close(), whose result is dropped; the
\* function then returns err (nil after line 235 only)
CloseStateStore ==
    /\ pc = "CloseStateStore"
    /\ \E fail \in FaultChoices :
         /\ Charge("close_st", fail)
    /\ db_st' = "closed"
    /\ pc' = "ReturnPruneState"
    /\ oplog' = Append(oplog, "close_st")
    /\ stages' = IF err = "nil" THEN Append(stages, "CompactState")
                 ELSE stages
    /\ UNCHANGED <<err, flagVars, parsedVars, blockStoreVars, stateKeys,
                   heightVars, db_bs, db_cb, loopVars, countVars, probe,
                   histVars>>

\* prune.go:113-119
Finish ==
    /\ pc = "ReturnPruneState"
    /\ pc' = IF err # "nil" THEN "Failed" ELSE "Done"
    /\ UNCHANGED <<faults, err, flagVars, parsedVars, blockStoreVars,
                   stateKeys, heightVars, handleVars, loopVars, oplog,
                   stages, countVars, failed, probe, histVars>>

(***************************************************************************)
(* The command is run again, with the same flags, on the data directory    *)
(* the previous run left (prune.go:70-83).                                 *)
(***************************************************************************)
Terminal == {"NoOp", "Done", "Failed", "Crashed"}

Restart ==
    /\ pc \in Terminal
    /\ run < MaxRuns
    /\ run' = run + 1
    /\ prev' = [outcome |-> pc, stateKeys |-> stateKeys, bsBase |-> bsBase,
                bsHeight |-> bsHeight, faults |-> faults, base0 |-> base0,
                stages |-> stages]
    /\ keys0' = stateKeys
    /\ base0' = bsBase
    /\ probe' = "none"
    /\ pc' = "CheckLiveness"
    /\ err' = "nil"
    /\ fullHeight' = 0
    /\ minHeight' = 0
    /\ startHeight' = 0
    /\ currentHeight' = 0
    /\ db_bs' = "nil"
    /\ db_cb' = "nil"
    /\ db_st' = "nil"
    /\ i' = 1
    /\ retain_height' = 0
    /\ batch' = <<>>
    /\ curBatchSize' = 0
    /\ c' = 0
    /\ oplog' = <<>>
    /\ stages' = <<>>
    /\ added' = Zero3
    /\ mid' = Zero3
    /\ fin' = Zero3
    /\ failed' = {}
    /\ UNCHANGED <<faults, flagVars, blockStoreVars, stateKeys>>

Next ==
    \/ CheckLiveness
    \/ ParseFlags
    \/ OpenBlockStore
    \/ ResolveHeights
    \/ PruneBlocks
    \/ CloseBlockStore
    \/ OpenCompact
    \/ CompactBlocks
    \/ CloseCompact
    \/ OpenStateStore
    \/ NsBegin
    \/ LoopStep
    \/ MidCommit
    \/ FinalFlush
    \/ CompactState
    \/ CloseStateStore
    \/ Finish
    \/ Restart

Spec == Init /\ [][Next]_vars

\* A step of the command while it runs.  Every call the command makes
\* returns, so a run that has not ended takes its next step; whether the
\* operator starts the command again is left open.
RunStep == pc \notin Terminal /\ Next

SpecLive == Init /\ [][Next]_vars /\ WF_vars(RunStep)

(***************************************************************************)
(* pruneStateStore on its own: called with arguments drawn from small      *)
(* sets, on a state store that holds keys around every edge of the ranges. *)
(***************************************************************************)
PSTop == 2003      \* currentHeight passed to pruneStateStore
PSStart == 3       \* largest startHeight passed to pruneStateStore

PSRetentions == {2, 1000, 1002, PSTop - 2, PSTop}

InitPS ==
    /\ run = 1
    /\ faults = 0
    /\ pc = "OpenStateStore"
    /\ err = "nil"
    /\ fullHeightFlag = <<>>
    /\ minHeightFlag = <<>>
    /\ fullHeight \in PSRetentions
    /\ minHeight \in PSRetentions
    /\ bsBase = 0
    /\ bsHeight = 0
    /\ startHeight \in 1..PSStart
    /\ currentHeight = PSTop
    /\ stateKeys = StateStoreAt({startHeight}
                                  \cup { PSTop - r : r \in PSRetentions },
                                PSTop)
    /\ keys0 = stateKeys
    /\ base0 = 0
    /\ probe = "notRunning"
    /\ db_bs = "closed"
    /\ db_cb = "closed"
    /\ db_st = "nil"
    /\ i = 1
    /\ retain_height = 0
    /\ batch = <<>>
    /\ curBatchSize = 0
    /\ c = 0
    /\ oplog = <<>>
    /\ stages = <<>>
    /\ added = Zero3
    /\ mid = Zero3
    /\ fin = Zero3
    /\ failed = {}
    /\ prev = [outcome |-> "none", stateKeys |-> {}, bsBase |-> 0,
               bsHeight |-> 0, faults |-> 0, base0 |-> 0,
               stages |-> <<>>]

NextPS ==
    \/ OpenStateStore
    \/ NsBegin
    \/ LoopStep
    \/ MidCommit
    \/ FinalFlush
    \/ CompactState
    \/ CloseStateStore

SpecPS == InitPS /\ [][NextPS]_vars

(***************************************************************************)
(* Properties.                                                             *)
(***************************************************************************)

\* C1: in a run whose liveness probe reports the node as running, the
\* command returns nil at once: no store has been opened, no store call has
\* been issued and both stores are as they were when the run started.
C1_LiveNodeNoOp ==
    probe = "running" =>
        /\ pc = "NoOp"
        /\ err = "nil"
        /\ oplog = <<>>
        /\ db_bs = "nil" /\ db_cb = "nil" /\ db_st = "nil"
        /\ stateKeys = keys0
        /\ bsBase = base0

C1_Witness == probe = "running" /\ pc = "NoOp" /\ run = 1

\* C2: when pruneStateStore has returned nil, the state store is the store
\* it was called on less the keys prefix+decimal(c) of the three namespaces
\* for startHeight <= c < retainHeight, where retainHeight is
\* currentHeight - minHeight for the ABCI responses and
\* currentHeight - fullHeight for the other two: those keys are absent and
\* every other key is present exactly when it was present before.
C2_PrunedRange ==
    (pc = "ReturnPruneState" /\ err = "nil") =>
        LET retain(n) == IF stateDBKeys[n] = "abciResponsesKey:"
                         THEN currentHeight - minHeight
                         ELSE currentHeight - fullHeight
            pruned == UNION { { Key(stateDBKeys[n], h) :
                                  h \in startHeight..(retain(n) - 1) } :
                              n \in Namespaces }
        IN  stateKeys = keys0 \ pruned

C2_Witness ==
    /\ pc = "ReturnPruneState" /\ err = "nil"
    /\ added[1] > 1000 /\ added[3] > 0 /\ added[3] < added[1]
    /\ "validatorsKey:1" \in keys0 \ stateKeys
    /\ "abciResponsesKey:1" \in keys0 \ stateKeys

\* C3: a namespace whose retainHeight is below startHeight gets no delete
\* operation and loses no key; its loop is left at once, its flush writes an
\* empty batch, and unless that write is made to fail by the store the
\* function goes on with the next namespace (or with the compaction, after
\* the last one) with err nil.
C3_NothingToPrune ==
    [][ \A n \in Namespaces :
          LET retain == IF stateDBKeys[n] = "abciResponsesKey:"
                        THEN currentHeight - minHeight
                        ELSE currentHeight - fullHeight
              nsKeys == { Key(stateDBKeys[n], h) :
                            h \in SampleHeights(
                                    {startHeight}
                                      \cup { currentHeight - r :
                                               r \in PSRetentions },
                                    currentHeight) }
          IN  retain < startHeight =>
                /\ added'[n] = 0
                /\ (keys0 \ stateKeys') \cap nsKeys = {}
                /\ (i = n /\ pc = "Loop") => pc' = "FinalFlush"
                /\ (i = n /\ pc = "FinalFlush") => batch = <<>>
                /\ (i = n /\ pc = "FinalFlush" /\ faults' = faults) =>
                     /\ err' = "nil"
                     /\ IF n < 3 THEN i' = n + 1 /\ pc' = "NsBegin"
                        ELSE pc' = "CompactState"
      ]_vars

C3_Witness ==
    /\ currentHeight - fullHeight < startHeight
    /\ currentHeight - minHeight > startHeight
    /\ pc = "ReturnPruneState" /\ err = "nil"
    /\ added[1] = 0 /\ added[2] = 0 /\ added[3] > 0
    /\ fin = <<1, 1, 1>>

\* C4: a namespace with N candidate heights (N = 0 when retainHeight is not
\* above startHeight) never has more than N \div 1000 commits inside its loop
\* nor more than one flush after it, and once it has been pruned with no
\* write failing it has had exactly N \div 1000 commits and one flush; a
\* completed pruneStateStore has issued exactly that many writes.
C4_CommitCount ==
    LET retain(n) == IF stateDBKeys[n] = "abciResponsesKey:"
                     THEN currentHeight - minHeight
                     ELSE currentHeight - fullHeight
        N(n) == IF retain(n) > startHeight THEN retain(n) - startHeight
                ELSE 0
        writes == Len(SelectSeq(oplog, LAMBDA op : op = "write_st"))
    IN  /\ \A n \in Namespaces :
              /\ mid[n] <= N(n) \div 1000
              /\ fin[n] <= 1
              /\ (n < i \/ pc = "CompactState") =>
                     /\ added[n] = N(n)
                     /\ mid[n] = N(n) \div 1000
                     /\ fin[n] = 1
        /\ pc = "CompactState" =>
              writes = (N(1) \div 1000) + (N(2) \div 1000)
                         + (N(3) \div 1000) + 3

C4_Witness ==
    /\ pc = "CompactState"
    /\ added[1] = 2000 /\ mid[1] = 2 /\ fin[1] = 1
    /\ added[3] = 0 /\ mid[3] = 0 /\ fin[3] = 1

\* C5: on the stores left by a run that ended in Done, a further run with
\* the same flags removes nothing (the state store and the block store stay
\* as that run left them, at every point of the further run) and does not
\* fail unless a store call of the further run itself returns an I/O error.
C5_SecondRunChangesNothing ==
    prev.outcome = "Done" =>
        /\ stateKeys = prev.stateKeys
        /\ bsBase = prev.bsBase
        /\ bsHeight = prev.bsHeight
        /\ pc \in {"Failed", "Crashed"} => faults > prev.faults

C5_Witness ==
    /\ run = 2 /\ prev.outcome = "Done" /\ pc = "Done"
    /\ faults = 0
    /\ prev.stateKeys # StateStoreAt({base0, bsHeight}
                                       \cup FlagEdges(bsHeight), bsHeight)
    /\ added[3] > 0

\* C6: every store call of a run belongs to the first stage that has not yet
\* succeeded, the stages that have succeeded are an initial part of
\* ResolveHeights, PruneBlocks, CompactBlocks, PruneState, CompactState
\* with none twice, and Done is reached only with all five succeeded.
C6_StageOrder ==
    [][ LET StageOrder == <<"ResolveHeights", "PruneBlocks",
                            "CompactBlocks", "PruneState", "CompactState">>
            OpStages(op) ==
                CASE op \in {"open_bs", "base_bs", "height_bs"} -> {1}
                  [] op \in {"prune_bs", "close_bs"} -> {2}
                  [] op \in {"open_cb", "compact_cb", "close_cb"} -> {3}
                  [] op \in {"open_st", "write_st"} -> {4}
                  [] op = "compact_st" -> {5}
                  [] op = "close_st" -> {4, 5}
        IN  /\ \A k \in (Len(oplog) + 1)..Len(oplog') :
                  run' = run => (Len(stages) + 1) \in OpStages(oplog'[k])
            /\ \E k \in 0..5 : stages' = SubSeq(StageOrder, 1, k)
            /\ pc' = "Done" => stages' = StageOrder
      ]_vars

\* C7: once CompactRange on the block store has returned an error, the run
\* is inside compactBlockStore with that error or has ended in Failed with
\* it, and the state store has not been opened or changed.
C7_CompactionErrorReturned ==
    "compact_cb" \in failed =>
        /\ pc \in {"CloseCompact", "Failed"}
        /\ err = "ErrCompactBlocks"
        /\ db_st = "nil"
        /\ stateKeys = keys0
        /\ \A k \in 1..Len(oplog) :
              oplog[k] \notin {"open_st", "write_st", "compact_st",
                               "close_st"}

\* C8: once a Write of pruneStateStore has returned an error, the function
\* is on its way out with that error (or the run has ended in Failed with
\* it): that Write is the last call but the closing of the handle, no
\* compaction of the state store has been issued, no later namespace has
\* been touched, and the state store is the store of the start of the run
\* less the keys of the batches committed before: every key of the earlier
\* namespaces' ranges and the first 1000 * (commits so far) keys of the
\* current one; the deletes of the failed batch are still present.
C8_WriteFailureAborts ==
    "write_st" \in failed =>
        LET retain(n) == IF stateDBKeys[n] = "abciResponsesKey:"
                         THEN currentHeight - minHeight
                         ELSE currentHeight - fullHeight
            done(n) == IF n < i THEN startHeight..(retain(n) - 1)
                       ELSE IF n = i
                       THEN startHeight..(startHeight + 1000 * mid[n] - 1)
                       ELSE {}
            committed == UNION { { Key(stateDBKeys[n], h) : h \in done(n) } :
                                 n \in Namespaces }
            writes == Len(SelectSeq(oplog, LAMBDA op : op = "write_st"))
            last == Len(oplog)
        IN  /\ pc \in {"CloseStateStore", "ReturnPruneState", "Failed"}
            /\ err = "ErrWrite"
            /\ \A k \in 1..last : oplog[k] # "compact_st"
            /\ \/ oplog[last] = "write_st"
               \/ oplog[last] = "close_st" /\ oplog[last - 1] = "write_st"
            /\ \A n \in Namespaces :
                  n > i => added[n] = 0 /\ mid[n] = 0 /\ fin[n] = 0
            /\ \A n \in Namespaces : n < i => fin[n] = 1
            /\ fin[i] = 0
            /\ writes = mid[1] + fin[1] + mid[2] + fin[2] + mid[3] + fin[3]
                          + 1
            /\ stateKeys = keys0 \ committed
            /\ \A k \in 1..Len(batch) :
                  batch[k] \in keys0 => batch[k] \in stateKeys

C8_Witness ==
    /\ pc = "Failed" /\ err = "ErrWrite"
    /\ i = 2 /\ mid = <<1, 0, 0>> /\ fin = <<1, 0, 0>>
    /\ Len(batch) = 1000
    /\ "validatorsKey:1" \in keys0 \ stateKeys
    /\ "consensusParamsKey:1" \in stateKeys

\* C9: once the opening of a store has returned an error, the run has
\* halted at that call and returns that error: it has not crashed, the
\* failed open is the last store call, and err is the open error.
C9_OpenErrorReturned ==
    \A op \in {"open_bs", "open_cb", "open_st"} :
        op \in failed =>
            /\ pc \in {"Failed", "ReturnPruneState"}
            /\ err = (CASE op = "open_bs" -> "ErrOpenBlockStore"
                        [] op = "open_cb" -> "ErrOpenCompact"
                        [] op = "open_st" -> "ErrOpenStateStore")
            /\ oplog[Len(oplog)] = op

\* C10: for the block store as for the state store, when CompactRange has
\* returned nil and the Close that follows has returned an error, the
\* function returns the Close error and the run ends in Failed with it.
C10_CloseErrorIsResult ==
    /\ ("close_cb" \in failed /\ "compact_cb" \notin failed) =>
          pc = "Failed" /\ err = "ErrCloseCompact"
    /\ ("close_st" \in failed /\ "compact_st" \notin failed
          /\ \E k \in 1..Len(oplog) : oplog[k] = "compact_st") =>
          pc \in {"ReturnPruneState", "Failed"} /\ err = "ErrCloseState"

\* C11 as stated: a run whose full_height or min_height flag is not a
\* base-10 64-bit integer has ended, once it has ended, with an input error
\* and without a store call.  The flags that are such integers are listed.
C11_InvalidFlagAlwaysError ==
    LET IntegerTexts == { <<"2">>, <<"5">>, <<"1", "0", "0", "2">> }
    IN  (pc \in Terminal
           /\ (fullHeightFlag \notin IntegerTexts
                 \/ minHeightFlag \notin IntegerTexts)) =>
            /\ pc = "Failed"
            /\ err \in {"ErrParseFullHeight", "ErrParseMinHeight"}
            /\ oplog = <<>>

\* C11 amended: a run whose liveness probe returned an error and whose
\* full_height or min_height flag is not a base-10 64-bit integer ends at the
\* parsing of the flags with the parse error of the first bad flag: no store
\* has been opened, no store call issued, both stores are unchanged.
C11_InvalidFlagError ==
    LET IntegerTexts == { <<"2">>, <<"5">>, <<"1", "0", "0", "2">> }
    IN  (probe \in {"notRunning", "cannotExecute"}
           /\ pc # "ParseFlags"
           /\ (fullHeightFlag \notin IntegerTexts
                 \/ minHeightFlag \notin IntegerTexts)) =>
            /\ pc = "Failed"
            /\ err = IF fullHeightFlag \notin IntegerTexts
                     THEN "ErrParseFullHeight" ELSE "ErrParseMinHeight"
            /\ oplog = <<>>
            /\ db_bs = "nil" /\ db_cb = "nil" /\ db_st = "nil"
            /\ stateKeys = keys0
            /\ bsBase = base0

C11_Witness ==
    /\ pc = "Failed" /\ err = "ErrParseMinHeight"
    /\ fullHeightFlag = <<"2">>
    /\ Len(minHeightFlag) = 19

\* C12: the step after the probe goes on to the parsing of the flags
\* exactly when the probe call returned an error, be it that the probe ran
\* and found no node or that it could not be run, and returns nil exactly
\* when it returned none; the error of the probe is never the error a run
\* ends with.
C12_ProbeErrorProceeds ==
    [][ /\ pc = "CheckLiveness" /\ run' = run =>
              /\ pc' = "ParseFlags" <=>
                     probe' \in {"notRunning", "cannotExecute"}
              /\ pc' = "NoOp" <=> probe' = "running"
              /\ pc' \in {"ParseFlags", "NoOp"}
        /\ pc' \in Terminal => err' # "ErrProbe"
        /\ pc' = "NoOp" <=> probe' = "running"
      ]_vars

C12_Witness ==
    /\ probe = "cannotExecute"
    /\ pc = "Done"
    /\ stateKeys # keys0
    /\ bsBase > base0

\* C13: the batch never holds more than 1000 delete operations; it holds
\* 1000 only at the commit inside the loop (or after that commit failed),
\* after which it is empty again; and a batch that is handed to Write holds
\* keys of the current namespace only: the keys of the consecutive heights
\* that follow those already committed for it.
C13_BatchBounded ==
    /\ Len(batch) <= 1000
    /\ Len(batch) = 1000 =>
          \/ pc = "MidCommit"
          \/ "write_st" \in failed
    /\ pc = "MidCommit" => Len(batch) = 1000
    /\ pc \in {"MidCommit", "FinalFlush"} =>
          \A k \in 1..Len(batch) :
              batch[k] = Key(stateDBKeys[i],
                             startHeight + 1000 * mid[i] + k - 1)
    /\ (pc = "Loop" /\ curBatchSize % 1000 = 0) => batch = <<>>

C13_Witness ==
    /\ pc = "FinalFlush"
    /\ i = 3 /\ mid = <<2, 2, 1>>
    /\ Len(batch) = 2

\* C14: from the reading of the heights to the end of a run that has not
\* failed, startHeight is the base the block store had when the run started
\* and currentHeight is its height, whatever base the pruning has since given
\* the block store; the loops of the state pruner start at that base and end
\* at that height less the retention.
C14_HeightsReadOnce ==
    (Len(stages) >= 1 /\ pc \notin {"Failed", "Crashed"}) =>
        /\ startHeight = base0
        /\ currentHeight = bsHeight
        /\ pc = "Loop" =>
              /\ c = base0 + added[i]
              /\ retain_height = bsHeight - (IF i = 3 THEN minHeight
                                             ELSE fullHeight)

C14_Witness ==
    /\ pc = "Loop" /\ i = 1 /\ added[1] = 1
    /\ bsBase > base0
    /\ base0 = 2
    /\ c = 3

\* C15: the two handles on the block store are never open together, the
\* block store is opened for compaction only once the handle used for the
\* heights and the pruning is closed, no store is opened twice for the same
\* use in a run, and whenever control is back in runStartPruneCmd or the run
\* has ended, in whatever way, no handle is open.
C15_HandlesScoped ==
    LET opens(op) == Len(SelectSeq(oplog, LAMBDA o : o = op))
    IN  /\ ~(db_bs = "open" /\ db_cb = "open")
        /\ (db_cb # "nil" \/ opens("open_cb") > 0) => db_bs = "closed"
        /\ \A op \in {"open_bs", "open_cb", "open_st"} : opens(op) <= 1
        /\ pc \in Terminal
                    \cup {"OpenCompact", "OpenStateStore", "ReturnPruneState"}
              => db_bs # "open" /\ db_cb # "open" /\ db_st # "open"

C15_Witness ==
    /\ pc = "Failed"
    /\ err = "ErrPruneBlocks"
    /\ db_bs = "closed" /\ db_cb = "nil" /\ db_st = "nil"

C17_ZeroPrunedContinues ==
    LET calls == Len(SelectSeq(oplog, LAMBDA o : o = "prune_bs"))
    IN  /\ calls <= 1
        /\ (calls = 1 /\ fullHeight >= currentHeight - startHeight)
              => /\ err # "ErrPruneHeight"
                 /\ bsBase = base0
                 /\ added[1] = 0
                 /\ added[2] = 0

\* C18 as stated: every run of the command eventually ends in the no-op
\* exit, in Done or in Failed.
C18_RunTerminates ==
    \A r \in 1..MaxRuns :
        (run = r) ~> (run = r /\ pc \in {"NoOp", "Done", "Failed"})

\* C19 as stated: when a run failed after its block pruning had succeeded and
\* a further run with the same flags on the same stores ends in Done, the
\* state store holds no key of a namespace at a height from the base the
\* failed run found up to, not including, the retain height of the namespace.
C19_RecoveryCompletes ==
    ( /\ prev.outcome = "Failed"
      /\ \E k \in 1..Len(prev.stages) : prev.stages[k] = "PruneBlocks"
      /\ pc = "Done" )
        => \A n \in Namespaces :
              \A h \in prev.base0..(RetainHeight(stateDBKeys[n]) - 1) :
                  Key(stateDBKeys[n], h) \notin stateKeys

\* C20: in every state of a run, failed or not, the run has removed keys of
\* the state store only after its block pruning succeeded, with the base of
\* the block store then at the cutoff currentHeight - fullHeight, and no
\* validators or consensus-parameters key at a height at or above that
\* cutoff, so at any height the block store retains, is among those removed.
C20_CrossStoreCoherence ==
    LET removed == keys0 \ stateKeys
    IN  removed # {} =>
            /\ \E k \in 1..Len(stages) : stages[k] = "PruneBlocks"
            /\ bsBase = currentHeight - fullHeight
            /\ \A s \in {kValidators, kConsensusParams} :
                   \A h \in bsBase..(bsHeight + Margin) :
                       Key(s, h) \notin removed

C20_Witness ==
    /\ pc = "Failed"
    /\ err = "ErrCompactState"
    /\ bsBase > base0
    /\ Key(kValidators, base0) \in keys0 \ stateKeys
    /\ Key(kValidators, bsBase) \in stateKeys

====
